---- MODULE Spec2Model ----
(***************************************************************************)
(* Flash backup / update engine of ds5_device (src/ds5/ds5-device.cpp).    *)
(*                                                                         *)
(* One run of the model is one call of one operation on one device:        *)
(*   "SECTION"      update_flash_section(hwm, image, offset, size, ...)    *)
(*   "BACKUP"       ds5_device::backup_flash(callback)                     *)
(*   "FULL", "UPDATE", "READ_ONLY", "AL3D_FULL", "INVALID"                 *)
(*                  ds5_device::update_flash(image, callback, update_mode) *)
(*   "ENTER_UPDATE" ds5_device::enter_update_state()                       *)
(*   "TRANSPORT"    threads calling _hw_monitor->send on the device        *)
(* The device is a flash of FLASH_SIZE bytes: an erase command sets one    *)
(* whole sector to the erased value, a packet write stores its payload at  *)
(* its absolute offset, a read returns the bytes of the requested range.   *)
(* Every hwm->send may throw (transport failure).                          *)
(*                                                                         *)
(* Bytes are symbolic, <<tag, address>>: "F" the flash content before the  *)
(* run, "N" the image handed to the operation, "E" erased, "U" a byte read *)
(* from outside a buffer (undefined behaviour).  Progress values (float in *)
(* the code) are exact fractions <<n, d>>; <<0, 0>> is NaN (0.0f / 0.0f)   *)
(* and <<n, 0>>, n > 0, is +infinity (n / 0.0f).                           *)
(***************************************************************************)
EXTENDS Integers, Sequences, FiniteSets, TLC

VARIABLES
    mode,                     \* the operation / update_mode of this run
    pc,                       \* position in the code
    callback,                 \* TRUE iff a progress sink was passed
    FLASH_SECTOR_SIZE,        \* ds::FLASH_SECTOR_SIZE
    HW_MONITOR_COMMAND_SIZE,  \* HW_MONITOR_COMMAND_SIZE
    FLASH_SIZE,               \* ds::FLASH_SIZE, and flash_size of backup_flash
    max_bulk_size,            \* max_bulk_size of backup_flash
    image_size,               \* image.size()
    info,                     \* ds::get_flash_info(image): the flash layout
    dev_flash,                \* the device's flash content, byte a at [a + 1]
    flash,                    \* backup_flash: the vector being filled
    merged_image,             \* update_flash_internal: merged_image
    offset, size,             \* update_flash_section: arguments
    continue_from, ratio,     \* update_flash_section: arguments
    sector_index, i,          \* update_flash_section: loop variables
    todo,                     \* update_flash_section calls still to be made
    bi, bj, appended,         \* backup_flash: i, j, appended
    remaining_bytes,          \* al3d_fw_update_start: remaining_bytes
    block_number,             \* al3d_fw_update_start: block_number (uint16_t)
    blocks_sent,              \* al3d_fw_update_start: set_data_512 calls made
    poll,                     \* al3d_fw_update_start: result reads of the poll loop
    al3d_offset,              \* al3d_fw_update_start: offset
    block,                    \* al3d_fw_update_start: rv of the last set_data_512 call
    result,                   \* al3d_fw_update_start: the last result record of the poll loop
    ret,                      \* al3d_fw_update_start: ret, the status of the last set_data_512
    slept,                    \* al3d_fw_update_start: sleeps taken by the poll loop
    log,                      \* commands sent to the device, in order
    calls,                    \* number of on_update_progress calls so far
    progress,                 \* the value of the last on_update_progress call
    POLLING_DEVICES_INTERVAL_MS,  \* platform constant of the same name
    DELAY_FOR_RETRIES,        \* platform constant of the same name
    notifications,            \* enter_update_state: device_changed_notifications_on()
    valid,                    \* enter_update_state: result of the last is_valid() call
    polls,                    \* enter_update_state: is_valid() calls made
    sleeps,                   \* enter_update_state: sleep_for calls made
    logged,                   \* enter_update_state: warnings and errors logged
    raised,                   \* enter_update_state: the call that threw, if any
    lock,                     \* locked_transfer: the thread holding its mutex, 0 if none
    tpc,                      \* position of each thread in hw_monitor::send
    in_flight,                \* threads whose request is on the channel, unanswered
    sent,                     \* send calls each thread has completed
    run,                      \* 1 in the first update_flash call, 2 in a repeated one
    first_flash,              \* the device's flash content when the first call returned
    res,                      \* ds5_auto_exposure_roi_method::get: res, the response bytes
    roi,                      \* ds5_auto_exposure_roi_method::get: the region returned
    is_al3d_fw_update_start,  \* ds5_device: _is_al3d_fw_update_start
    epc,                      \* position of the thread calling get_al3d_error
    query_at                  \* position of update_flash when get_PTS_Time reached the device

vars == << mode, pc, callback, FLASH_SECTOR_SIZE, HW_MONITOR_COMMAND_SIZE,
           FLASH_SIZE, max_bulk_size, image_size, info, dev_flash, flash,
           merged_image, offset, size, continue_from, ratio, sector_index, i,
           todo, bi, bj, appended, remaining_bytes, block_number, blocks_sent,
           poll, al3d_offset, block, result, ret, slept, log, calls, progress,
           POLLING_DEVICES_INTERVAL_MS, DELAY_FOR_RETRIES, notifications, valid,
           polls, sleeps, logged, raised, lock, tpc, in_flight, sent, run,
           first_flash, res, roi, is_al3d_fw_update_start, epc, query_at >>

params == << mode, callback, FLASH_SECTOR_SIZE, HW_MONITOR_COMMAND_SIZE,
             FLASH_SIZE, max_bulk_size, image_size, info,
             POLLING_DEVICES_INTERVAL_MS, DELAY_FOR_RETRIES, notifications >>
sectionArgs == << offset, size, continue_from, ratio >>
backupVars == << flash, bi, bj, appended >>
al3dVars == << remaining_bytes, block_number, blocks_sent, poll, al3d_offset,
              block, result, ret, slept >>
sinkVars == << calls, progress >>
history == << run, first_flash >>
enterVars == << valid, polls, sleeps, logged, raised >>
transportVars == << lock, tpc, in_flight, sent >>
roiVars == << res, roi >>
errorVars == << is_al3d_fw_update_start, epc, query_at >>

(***************************************************************************)
(* Bounds of the model.                                                    *)
(***************************************************************************)
MaxSectorSize == 3
MaxCommandSize == 2
NumSectors == 3
MaxBulkSize == 4
MaxPart == 2
MaxHalfBlocks == 3
MaxIntervalSeconds == 2
MaxDelayUnits == 2
NumThreads == 2
MaxSends == 2
MaxResponseSize == 9

(***************************************************************************)
(* float arithmetic on fractions                                           *)
(***************************************************************************)
FDiv(a, b) == << a, b >>
FAdd(x, y) == << x[1] * y[2] + y[1] * x[2], x[2] * y[2] >>
FMul(x, y) == << x[1] * y[1], x[2] * y[2] >>
FIsNaN(x) == x[1] = 0 /\ x[2] = 0
FIsNumber(x) == x[2] > 0
\* x <= y and x < y of IEEE floats that are not negative: false with a NaN
FLeq(x, y) == ~FIsNaN(x) /\ ~FIsNaN(y) /\ x[1] * y[2] <= y[1] * x[2]
FLt(x, y) == ~FIsNaN(x) /\ ~FIsNaN(y) /\ x[1] * y[2] < y[1] * x[2]
Zero == FDiv(0, 1)
One == FDiv(1, 1)
Half == FDiv(1, 2)

Min(a, b) == IF a < b THEN a ELSE b

(***************************************************************************)
(* Bytes and buffers                                                       *)
(***************************************************************************)
Erased == << "E", 0 >>
Undefined == << "U", 0 >>
OldByte(a) == << "F", a >>
NewByte(a) == << "N", a >>

\* image[a]; a read at or beyond image.size() is outside the vector
ImageByte(a) == IF a < image_size THEN NewByte(a) ELSE Undefined

\* buf[a] of a sequence-held buffer
BufByte(buf, a) == IF a < Len(buf) THEN buf[a + 1] ELSE Undefined

\* the buffer update_flash_section reads: merged_image in the merge modes
\* (line 279), the caller's image otherwise (line 449)
SourceByte(a) ==
    IF mode \in {"UPDATE", "READ_ONLY"} THEN BufByte(merged_image, a)
    ELSE ImageByte(a)
SourceSize == IF mode \in {"UPDATE", "READ_ONLY"} THEN Len(merged_image) ELSE image_size

\* one entry of the log: a command handed to hwm->send (ok = FALSE: the send
\* threw), or a sleep of param1 milliseconds
Command(c, a, b) == [cmd |-> c, param1 |-> a, param2 |-> b, ok |-> TRUE]
Thrown(c, a, b) == [cmd |-> c, param1 |-> a, param2 |-> b, ok |-> FALSE]
Sleep(ms) == [cmd |-> "sleep", param1 |-> ms, param2 |-> 0, ok |-> TRUE]

\* the device: FES erases param2 = 1 sector at sector index s
EraseSector(fl, s) ==
    [a \in 1..Len(fl) |->
        IF (a - 1) \div FLASH_SECTOR_SIZE = s THEN Erased ELSE fl[a]]

\* the device: FWB stores data at absolute byte offset index
WritePacket(fl, index, data) ==
    [a \in 1..Len(fl) |->
        IF a - 1 >= index /\ a - 1 < index + Len(data) THEN data[a - index] ELSE fl[a]]

\* a fault of ReadRange: the device answers with the bytes one address further
ReadRangeShifted(fl, off, n) ==
    [k \in 1..(IF off + n <= Len(fl) THEN n ELSE IF off < Len(fl) THEN Len(fl) - off ELSE 0)
        |-> fl[((off + k) % Len(fl)) + 1]]

\* the device: FRB returns the bytes [off, off + n) of the flash
ReadRange(fl, off, n) ==
    [k \in 1..(IF off + n <= Len(fl) THEN n ELSE IF off < Len(fl) THEN Len(fl) - off ELSE 0)
        |-> fl[off + k]]

(***************************************************************************)
(* update_flash_section                                                    *)
(***************************************************************************)
first_sector(off) == off \div FLASH_SECTOR_SIZE

sector_count(off, sz) ==
    LET n == sz \div FLASH_SECTOR_SIZE
    IN  (IF n * FLASH_SECTOR_SIZE # sz THEN n + 1 ELSE n) + first_sector(off)

\* a fault of FESSector: the erase command always names the first sector
FESSectorFirst(s) == first_sector(offset)

\* param1 of the erase command of the sector being processed
FESSector(s) == s

\* index of the inner loop
PacketIndex(s, k) == s * FLASH_SECTOR_SIZE + k

\* a fault of packet_size: the packet is not cut at the end of the sector
packet_size_unclamped(k) == HW_MONITOR_COMMAND_SIZE - (k % HW_MONITOR_COMMAND_SIZE)

packet_size(k) ==
    Min(HW_MONITOR_COMMAND_SIZE - (k % HW_MONITOR_COMMAND_SIZE), FLASH_SECTOR_SIZE - k)

\* cmdFWB.data.assign(image.data() + index, image.data() + index + packet_size)
PacketData(index, n) == [k \in 1..n |-> SourceByte(index + k - 1)]

\* the value passed to on_update_progress after a sector
SectorProgress(s) ==
    FAdd(continue_from, FMul(FDiv(s, sector_count(offset, size)), ratio))

SectionCall(off, sz, from, r) ==
    [offset |-> off, size |-> sz, continue_from |-> from, ratio |-> r]

\* entry of update_flash_section with the arguments c
Enter(c) ==
    /\ offset' = c.offset
    /\ size' = c.size
    /\ continue_from' = c.continue_from
    /\ ratio' = c.ratio
    /\ sector_index' = first_sector(c.offset)
    /\ i' = 0
    /\ pc' = "sector"

\* where the caller of the last update_flash_section call goes on
AfterSections == IF mode = "SECTION" THEN "done" ELSE "final_progress"

\* a fault of EraseStep: a failed erase is ignored and the sector is written
EraseStepFailureIgnored ==
    /\ pc = "sector"
    /\ sector_index < sector_count(offset, size)
    /\ \/ /\ log' = Append(log, Command("FES", FESSector(sector_index), 1))
          /\ dev_flash' = EraseSector(dev_flash, FESSector(sector_index))
       \/ /\ log' = Append(log, Thrown("FES", FESSector(sector_index), 1))
          /\ UNCHANGED dev_flash
    /\ i' = 0
    /\ pc' = "packet"
    /\ UNCHANGED << params, history, roiVars, errorVars, transportVars, enterVars, backupVars, al3dVars,
                    sinkVars, sectionArgs, merged_image, sector_index, todo >>

\* for (sector_index ...): the loop test and the erase of the sector
EraseStep ==
    /\ pc = "sector"
    /\ sector_index < sector_count(offset, size)
    /\ \/ /\ log' = Append(log, Command("FES", FESSector(sector_index), 1))
          /\ dev_flash' = EraseSector(dev_flash, FESSector(sector_index))
          /\ i' = 0
          /\ pc' = "packet"
       \/ /\ pc' = "failed"       \* hwm->send(cmdFES) throws
          /\ log' = Append(log, Thrown("FES", FESSector(sector_index), 1))
          /\ UNCHANGED << dev_flash, i >>
    /\ UNCHANGED << params, history, roiVars, errorVars, transportVars, enterVars, backupVars, al3dVars, sinkVars, sectionArgs,
                    merged_image, sector_index, todo >>

\* for (int i = 0; ...): one packet write
WriteStep ==
    /\ pc = "packet"
    /\ i < FLASH_SECTOR_SIZE
    /\ PacketIndex(sector_index, i) < offset + size
    /\ LET index == PacketIndex(sector_index, i)
           n == packet_size(i)
       IN  \/ /\ log' = Append(log, Command("FWB", index, n))
              /\ dev_flash' = WritePacket(dev_flash, index, PacketData(index, n))
              /\ i' = i + n
              /\ pc' = "packet"
           \/ /\ pc' = "failed"   \* hwm->send(cmdFWB) throws
              /\ log' = Append(log, Thrown("FWB", index, n))
              /\ UNCHANGED << dev_flash, i >>
           \/ /\ index + n > SourceSize   \* the read leaves the vector: it may fault
              /\ pc' = "crashed"
              /\ UNCHANGED << log, dev_flash, i >>
    /\ UNCHANGED << params, history, roiVars, errorVars, transportVars, enterVars, backupVars, al3dVars, sinkVars, sectionArgs,
                    merged_image, sector_index, todo >>

\* the inner loop ends; if (callback) callback->on_update_progress(...); sector_index++
SectorDone ==
    /\ pc = "packet"
    /\ ~(i < FLASH_SECTOR_SIZE /\ PacketIndex(sector_index, i) < offset + size)
    /\ IF callback
       THEN calls' = calls + 1 /\ progress' = SectorProgress(sector_index)
       ELSE UNCHANGED << calls, progress >>
    /\ sector_index' = sector_index + 1
    /\ pc' = "sector"
    /\ UNCHANGED << params, history, roiVars, errorVars, transportVars, enterVars, backupVars, al3dVars, sectionArgs, dev_flash,
                    merged_image, i, todo, log >>

\* the sector loop ends: update_flash_section returns; its caller makes the
\* next call (update_section, update_flash_internal) or goes on
SectionReturn ==
    /\ pc = "sector"
    /\ ~(sector_index < sector_count(offset, size))
    /\ IF todo # << >>
       THEN Enter(Head(todo)) /\ todo' = Tail(todo)
       ELSE /\ pc' = AfterSections
            /\ UNCHANGED << offset, size, continue_from, ratio, sector_index, i, todo >>
    /\ UNCHANGED << params, history, roiVars, errorVars, transportVars, enterVars, backupVars, al3dVars, sinkVars, dev_flash,
                    merged_image, log >>

(***************************************************************************)
(* backup_flash                                                            *)
(***************************************************************************)
flash_size == FLASH_SIZE
max_iterations == flash_size \div max_bulk_size + 1
retries == 3

ChunkOffset(k) == max_bulk_size * k
ChunkSize(k) ==
    IF k = max_iterations - 1 THEN flash_size - ChunkOffset(k) ELSE max_bulk_size

\* the test of the catch block: sleep and go round again, or rethrow
RetryAllowed(chunk, attempt) == chunk < retries - 1

\* update_flash calls backup_flash(nullptr)
BackupCallback == mode = "BACKUP" /\ callback

\* for (int i = 0; i < max_iterations; i++): the loop test
NextChunk ==
    /\ pc = "chunk"
    /\ IF bi < max_iterations
       THEN bj' = 0 /\ appended' = FALSE /\ pc' = "attempt"
       ELSE pc' = "backup_end" /\ UNCHANGED << bj, appended >>
    /\ UNCHANGED << params, history, roiVars, errorVars, transportVars, enterVars, al3dVars, sinkVars, sectionArgs, dev_flash, flash, bi,
                    merged_image, sector_index, i, todo, log >>

\* for (int j = 0; j < retries && !appended; j++): one send of the read command
ReadAttempt ==
    /\ pc = "attempt"
    /\ bj < retries /\ ~appended
    /\ LET off == ChunkOffset(bi)
           n == ChunkSize(bi)
       IN  \/ /\ log' = Append(log, Command("FRB", off, n))
              /\ flash' = flash \o ReadRange(dev_flash, off, n)
              /\ appended' = TRUE
              /\ bj' = bj + 1
              /\ pc' = "attempt"
           \/ /\ RetryAllowed(bi, bj)      \* the send throws; caught, sleep
              /\ log' = Append(Append(log, Thrown("FRB", off, n)), Sleep(100))
              /\ bj' = bj + 1
              /\ pc' = "attempt"
              /\ UNCHANGED << flash, appended >>
           \/ /\ ~RetryAllowed(bi, bj)     \* the send throws; caught, rethrown
              /\ log' = Append(log, Thrown("FRB", off, n))
              /\ pc' = "failed"
              /\ UNCHANGED << flash, appended, bj >>
    /\ UNCHANGED << params, history, roiVars, errorVars, transportVars, enterVars, al3dVars, sinkVars, sectionArgs, dev_flash, bi,
                    merged_image, sector_index, i, todo >>

\* the retry loop ends; if (callback) callback->on_update_progress((float)i / max_iterations)
ChunkDone ==
    /\ pc = "attempt"
    /\ ~(bj < retries /\ ~appended)
    /\ IF BackupCallback
       THEN calls' = calls + 1 /\ progress' = FDiv(bi, max_iterations)
       ELSE UNCHANGED << calls, progress >>
    /\ bi' = bi + 1
    /\ pc' = "chunk"
    /\ UNCHANGED << params, history, roiVars, errorVars, transportVars, enterVars, al3dVars, sectionArgs, dev_flash, flash, bj, appended,
                    merged_image, sector_index, i, todo, log >>

\* if (callback) callback->on_update_progress(1.0); return flash
BackupEnd ==
    /\ pc = "backup_end"
    /\ IF BackupCallback
       THEN calls' = calls + 1 /\ progress' = One
       ELSE UNCHANGED << calls, progress >>
    /\ pc' = IF mode = "BACKUP" THEN "done" ELSE "merge"
    /\ UNCHANGED << params, history, roiVars, errorVars, transportVars, enterVars, backupVars, al3dVars, sectionArgs, dev_flash,
                    merged_image, sector_index, i, todo, log >>

(***************************************************************************)
(* update_section, update_flash_internal                                   *)
(***************************************************************************)
\* the flash_section fs of a layout: "read_write" or "read_only"
Section(inf, which) ==
    IF which = "read_write"
    THEN [offset |-> inf.rw_offset, app_size |-> inf.rw_app_size,
          first_table_offset |-> inf.rw_first_table_offset]
    ELSE [offset |-> inf.ro_offset, app_size |-> inf.ro_app_size,
          first_table_offset |-> inf.ro_first_table_offset]

\* tables_size of update_flash_internal
tables_size(inf, which) ==
    IF which = "read_write"
    THEN inf.read_write_start_address + inf.read_write_size - inf.rw_first_table_offset
    ELSE inf.read_only_start_address + inf.read_only_size - inf.ro_first_table_offset

\* continue_from of the second update_flash_section call of update_section
TablesContinueFrom(from, app_ratio) == app_ratio

\* update_section: its two update_flash_section calls
update_section(fs, tsize, from, r) ==
    LET total_size == fs.app_size + tsize
        app_ratio == FMul(FDiv(fs.app_size, total_size), r)
        tables_ratio == FMul(FDiv(tsize, total_size), r)
    IN  << SectionCall(fs.offset, fs.app_size, from, app_ratio),
           SectionCall(fs.first_table_offset, tsize,
                       TablesContinueFrom(from, app_ratio), tables_ratio) >>

\* merge_images: the backup with the bytes of the read-write section replaced
\* by those of the new image, of the full flash size
merge_images(backup, inf) ==
    [a \in 1..FLASH_SIZE |->
        IF /\ a - 1 >= inf.read_write_start_address
           /\ a - 1 < inf.read_write_start_address + inf.read_write_size
        THEN ImageByte(a - 1)
        ELSE BufByte(backup, a - 1)]

\* update_flash_internal: the update_flash_section calls it makes, in order
update_flash_internal(inf, update_mode) ==
    update_section(Section(inf, "read_write"), tables_size(inf, "read_write"), Zero,
                   IF update_mode = "READ_ONLY" THEN Half ELSE One)
    \o (IF update_mode = "READ_ONLY"
        THEN update_section(Section(inf, "read_only"), tables_size(inf, "read_only"),
                            Half, Half)
        ELSE << >>)

\* a fault of Merge: the new image is written as it is, the backup ignored
MergeSkipped ==
    /\ pc = "merge"
    /\ merged_image' = [a \in 1..FLASH_SIZE |-> ImageByte(a - 1)]
    /\ LET cs == update_flash_internal(info, mode)
       IN  Enter(Head(cs)) /\ todo' = Tail(cs)
    /\ UNCHANGED << params, history, roiVars, errorVars, transportVars, enterVars, backupVars, al3dVars,
                    sinkVars, dev_flash, log >>

\* update_flash_internal up to the entry of its first update_flash_section call
Merge ==
    /\ pc = "merge"
    /\ merged_image' = merge_images(flash, info)
    /\ LET cs == update_flash_internal(info, mode)
       IN  Enter(Head(cs)) /\ todo' = Tail(cs)
    /\ UNCHANGED << params, history, roiVars, errorVars, transportVars, enterVars, backupVars, al3dVars, sinkVars, dev_flash, log >>

(***************************************************************************)
(* al3d_fw_update_start, case AL3D_UNSIGNED_UPDATE_MODE_FULL               *)
(***************************************************************************)
transfer_size == 512
max_loop == 600
blocks_count == (image_size \div transfer_size) % 65536

\* a fault of TransferTotal: the length is rounded down to whole blocks
TransferTotalFloor == (image_size \div transfer_size) * transfer_size

\* p2 of the init and start commands; its low 4 bytes are memcpy'd into the
\* command, which is the whole value for every length below 2^32 - 512
TransferTotal ==
    LET whole == (image_size \div transfer_size) * transfer_size
    IN  IF image_size % transfer_size > 0 THEN whole + transfer_size ELSE whole

\* values of a result record: first four fields zero, a fault code, neither
Results == {"complete", "fault", "busy"}

\* rv of a set_data_512 call: size bytes, the first `copied` of them the image
\* bytes from `offset` on, the others zero
Block(off, copied, sz) == [offset |-> off, copied |-> copied, size |-> sz]
NoBlock == Block(0, 0, 0)

\* what set_data_512 returns: 0, or a status that reports a failure
Statuses == {0, 1}

\* steps 1 and 2: set_cmd(init), get_cmd()
Al3dInit ==
    /\ pc = "al3d_init"
    /\ \/ /\ log' = Append(log, Command("set_cmd", 196609, TransferTotal))
          /\ pc' = "al3d_status"
       \/ /\ log' = Append(log, Thrown("set_cmd", 196609, TransferTotal))
          /\ pc' = "failed"
    /\ UNCHANGED << params, history, roiVars, errorVars, transportVars, enterVars, backupVars, al3dVars, sinkVars, sectionArgs, dev_flash,
                    merged_image, sector_index, i, todo >>

\* a fault of Al3dStatus: the result record is not read before the blocks
Al3dStatusSkipped ==
    /\ pc = "al3d_status"
    /\ pc' = "al3d_block"
    /\ UNCHANGED << params, history, roiVars, errorVars, transportVars, enterVars, backupVars, al3dVars,
                    sinkVars, sectionArgs, dev_flash, merged_image, sector_index, i,
                    todo, log >>

Al3dStatus ==
    /\ pc = "al3d_status"
    /\ \/ /\ log' = Append(log, Command("get_cmd", 0, 0))
          /\ pc' = "al3d_block"
       \/ /\ log' = Append(log, Thrown("get_cmd", 0, 0))
          /\ pc' = "failed"
    /\ UNCHANGED << params, history, roiVars, errorVars, transportVars, enterVars, backupVars, al3dVars, sinkVars, sectionArgs, dev_flash,
                    merged_image, sector_index, i, todo >>

\* step 3, else branch: a whole block, then the progress report
Al3dBlock ==
    /\ pc = "al3d_block"
    /\ remaining_bytes > 0
    /\ ~(remaining_bytes < transfer_size)
    /\ LET chunk_size == Min(transfer_size, remaining_bytes)
       IN  /\ block' = Block(al3d_offset, chunk_size, chunk_size)
           /\ remaining_bytes' = remaining_bytes - chunk_size
           /\ al3d_offset' = al3d_offset + chunk_size
    /\ ret' \in Statuses
    /\ blocks_sent' = blocks_sent + 1
    /\ block_number' = (block_number + 1) % 65536
    /\ IF callback
       THEN calls' = calls + 1 /\ progress' = FDiv(block_number', blocks_count)
       ELSE UNCHANGED << calls, progress >>
    /\ UNCHANGED << params, history, roiVars, errorVars, transportVars, enterVars, backupVars, sectionArgs, dev_flash, merged_image,
                    sector_index, i, todo, poll, result, slept, log, pc >>

\* a fault of Al3dLastBlock: the loop ends without sending the partial block
Al3dLastBlockDropped ==
    /\ pc = "al3d_block"
    /\ remaining_bytes > 0
    /\ remaining_bytes < transfer_size
    /\ pc' = "al3d_start"
    /\ UNCHANGED << params, history, roiVars, errorVars, transportVars, enterVars, backupVars, al3dVars, sinkVars, sectionArgs,
                    dev_flash, merged_image, sector_index, i, todo, log >>

\* step 3, if branch: the last, zero-padded block, then break
Al3dLastBlock ==
    /\ pc = "al3d_block"
    /\ remaining_bytes > 0
    /\ remaining_bytes < transfer_size
    /\ block' = Block(al3d_offset, remaining_bytes, transfer_size)
    /\ ret' \in Statuses
    /\ blocks_sent' = blocks_sent + 1
    /\ pc' = "al3d_start"
    /\ UNCHANGED << params, history, roiVars, errorVars, transportVars, enterVars, backupVars, sinkVars, sectionArgs, dev_flash,
                    merged_image, sector_index, i, todo, remaining_bytes,
                    block_number, poll, al3d_offset, result, slept, log >>

\* step 3: while (remaining_bytes > 0) ends
Al3dBlocksEnd ==
    /\ pc = "al3d_block"
    /\ ~(remaining_bytes > 0)
    /\ pc' = "al3d_start"
    /\ UNCHANGED << params, history, roiVars, errorVars, transportVars, enterVars, backupVars, al3dVars, sinkVars, sectionArgs, dev_flash,
                    merged_image, sector_index, i, todo, log >>

\* step 4: set_cmd(start)
Al3dStart ==
    /\ pc = "al3d_start"
    /\ \/ /\ log' = Append(log, Command("set_cmd", 196865, TransferTotal))
          /\ pc' = "al3d_poll"
       \/ /\ log' = Append(log, Thrown("set_cmd", 196865, TransferTotal))
          /\ pc' = "failed"
    /\ UNCHANGED << params, history, roiVars, errorVars, transportVars, enterVars, backupVars, al3dVars, sinkVars, sectionArgs, dev_flash,
                    merged_image, sector_index, i, todo >>

\* a fault of Al3dPoll: a record with its first four fields zero does not end
\* the loop
Al3dPollNoBreak ==
    /\ pc = "al3d_poll"
    /\ poll < max_loop
    /\ slept' = slept + 1
    /\ \/ \E r \in Results :
             /\ result' = r
             /\ pc' = CASE r = "fault" -> "failed"
                        [] OTHER -> "al3d_poll"
             /\ poll' = poll + 1
       \/ pc' = "failed" /\ UNCHANGED << poll, result >>
    /\ UNCHANGED << params, history, roiVars, errorVars, transportVars, enterVars, backupVars, sinkVars, sectionArgs, dev_flash,
                    merged_image, sector_index, i, todo, remaining_bytes,
                    block_number, blocks_sent, al3d_offset, block, ret, log >>

\* a fault of Al3dPoll: a record with a fault code does not throw
Al3dPollFaultIgnored ==
    /\ pc = "al3d_poll"
    /\ poll < max_loop
    /\ slept' = slept + 1
    /\ \/ \E r \in Results :
             /\ result' = r
             /\ pc' = CASE r = "complete" -> "al3d_progress"
                        [] OTHER -> "al3d_poll"
             /\ poll' = poll + 1
       \/ pc' = "failed" /\ UNCHANGED << poll, result >>
    /\ UNCHANGED << params, history, roiVars, errorVars, transportVars, enterVars, backupVars, sinkVars, sectionArgs, dev_flash,
                    merged_image, sector_index, i, todo, remaining_bytes,
                    block_number, blocks_sent, al3d_offset, block, ret, log >>

\* step 5: one iteration of the poll loop: sleep, get_cmd(), the two tests
Al3dPoll ==
    /\ pc = "al3d_poll"
    /\ poll < max_loop
    /\ slept' = slept + 1
    /\ \/ \E r \in Results :
             /\ result' = r
             /\ pc' = CASE r = "complete" -> "al3d_progress"
                        [] r = "fault" -> "failed"
                        [] OTHER -> "al3d_poll"
             /\ poll' = poll + 1
       \/ pc' = "failed" /\ UNCHANGED << poll, result >>     \* get_cmd throws
    /\ UNCHANGED << params, history, roiVars, errorVars, transportVars, enterVars, backupVars, sinkVars, sectionArgs, dev_flash,
                    merged_image, sector_index, i, todo, remaining_bytes,
                    block_number, blocks_sent, al3d_offset, block, ret, log >>

\* a fault of Al3dPollEnd: running out of iterations is an error
Al3dPollEndFails ==
    /\ pc = "al3d_poll"
    /\ ~(poll < max_loop)
    /\ pc' = "failed"
    /\ UNCHANGED << params, history, roiVars, errorVars, transportVars, enterVars, backupVars, al3dVars,
                    sinkVars, sectionArgs, dev_flash, merged_image, sector_index, i,
                    todo, log >>

\* step 5: the poll loop runs out
Al3dPollEnd ==
    /\ pc = "al3d_poll"
    /\ ~(poll < max_loop)
    /\ pc' = "al3d_progress"
    /\ UNCHANGED << params, history, roiVars, errorVars, transportVars, enterVars, backupVars, al3dVars, sinkVars, sectionArgs, dev_flash,
                    merged_image, sector_index, i, todo, log >>

\* float progress = (float)blocks_count / (float)blocks_count; the report
Al3dProgress ==
    /\ pc = "al3d_progress"
    /\ IF callback
       THEN calls' = calls + 1 /\ progress' = FDiv(blocks_count, blocks_count)
       ELSE UNCHANGED << calls, progress >>
    /\ pc' = "al3d_end"
    /\ UNCHANGED << params, history, roiVars, errorVars, transportVars, enterVars, backupVars, al3dVars, sectionArgs, dev_flash,
                    merged_image, sector_index, i, todo, log >>

\* if (callback) callback->on_update_progress(1.0); return to update_flash
Al3dEnd ==
    /\ pc = "al3d_end"
    /\ IF callback
       THEN calls' = calls + 1 /\ progress' = One
       ELSE UNCHANGED << calls, progress >>
    /\ pc' = "final_progress"
    /\ UNCHANGED << params, history, roiVars, errorVars, transportVars, enterVars, backupVars, al3dVars, sectionArgs, dev_flash,
                    merged_image, sector_index, i, todo, log >>

(***************************************************************************)
(* update_flash                                                            *)
(***************************************************************************)
\* command cmdPFD(ds::PFD); _hw_monitor->send(cmdPFD)
Prepare ==
    /\ pc = "prepare"
    /\ \/ /\ log' = Append(log, Command("PFD", 0, 0))
          /\ pc' = "switch"
       \/ /\ log' = Append(log, Thrown("PFD", 0, 0))
          /\ pc' = "failed"
    /\ UNCHANGED << params, history, roiVars, errorVars, transportVars, enterVars, backupVars, al3dVars, sinkVars, sectionArgs, dev_flash,
                    merged_image, sector_index, i, todo >>

\* a fault of SwitchFull: the first sector is left out of the write
SwitchFullFromSecond ==
    /\ pc = "switch"
    /\ mode = "FULL"
    /\ Enter(SectionCall(FLASH_SECTOR_SIZE, FLASH_SIZE - FLASH_SECTOR_SIZE, Zero, One))
    /\ UNCHANGED << params, history, roiVars, errorVars, transportVars, enterVars, backupVars, al3dVars,
                    sinkVars, dev_flash, merged_image, todo, log >>

\* case RS2_UNSIGNED_UPDATE_MODE_FULL
SwitchFull ==
    /\ pc = "switch"
    /\ mode = "FULL"
    /\ Enter(SectionCall(0, FLASH_SIZE, Zero, One))
    /\ UNCHANGED << params, history, roiVars, errorVars, transportVars, enterVars, backupVars, al3dVars, sinkVars, dev_flash,
                    merged_image, todo, log >>

\* case RS2_UNSIGNED_UPDATE_MODE_UPDATE, RS2_UNSIGNED_UPDATE_MODE_READ_ONLY
SwitchUpdate ==
    /\ pc = "switch"
    /\ mode \in {"UPDATE", "READ_ONLY"}
    /\ pc' = "chunk"
    /\ UNCHANGED << params, history, roiVars, errorVars, transportVars, enterVars, backupVars, al3dVars, sinkVars, sectionArgs, dev_flash,
                    merged_image, sector_index, i, todo, log >>

\* case AL3D_UNSIGNED_UPDATE_MODE_FULL
SwitchAl3d ==
    /\ pc = "switch"
    /\ mode = "AL3D_FULL"
    /\ is_al3d_fw_update_start' = TRUE
    /\ pc' = "al3d_init"
    /\ UNCHANGED << params, history, roiVars, epc, query_at, transportVars,
                    enterVars, backupVars, al3dVars, sinkVars, sectionArgs,
                    dev_flash, merged_image, sector_index, i, todo, log >>

\* default: throw std::runtime_error("invalid update mode value")
SwitchDefault ==
    /\ pc = "switch"
    /\ mode = "INVALID"
    /\ pc' = "failed"
    /\ UNCHANGED << params, history, roiVars, errorVars, transportVars, enterVars, backupVars, al3dVars, sinkVars, sectionArgs, dev_flash,
                    merged_image, sector_index, i, todo, log >>

\* a fault of FinalProgress: the closing report is left out
FinalProgressOmitted ==
    /\ pc = "final_progress"
    /\ pc' = "reset"
    /\ UNCHANGED << params, history, roiVars, errorVars, transportVars, enterVars, backupVars, al3dVars, sinkVars, sectionArgs, dev_flash,
                    merged_image, sector_index, i, todo, log >>

\* if (callback) callback->on_update_progress(1.0)
FinalProgress ==
    /\ pc = "final_progress"
    /\ IF callback
       THEN calls' = calls + 1 /\ progress' = One
       ELSE UNCHANGED << calls, progress >>
    /\ pc' = "reset"
    /\ UNCHANGED << params, history, roiVars, errorVars, transportVars, enterVars, backupVars, al3dVars, sectionArgs, dev_flash,
                    merged_image, sector_index, i, todo, log >>

\* command cmdHWRST(ds::HWRST); _hw_monitor->send(cmdHWRST)
Reset ==
    /\ pc = "reset"
    /\ \/ /\ log' = Append(log, Command("HWRST", 0, 0))
          /\ pc' = "done"
       \/ /\ log' = Append(log, Thrown("HWRST", 0, 0))
          /\ pc' = "failed"
    /\ UNCHANGED << params, history, roiVars, errorVars, transportVars, enterVars, backupVars, al3dVars, sinkVars, sectionArgs, dev_flash,
                    merged_image, sector_index, i, todo >>

(***************************************************************************)
(* enter_update_state                                                      *)
(***************************************************************************)
\* a fault of MAX_ITERATIONS_FOR_DEVICE_DISCONNECTED_LOOP: one iteration more
OneMoreIteration ==
    (POLLING_DEVICES_INTERVAL_MS + 1000) \div DELAY_FOR_RETRIES + 1

\* MAX_ITERATIONS_FOR_DEVICE_DISCONNECTED_LOOP
MAX_ITERATIONS_FOR_DEVICE_DISCONNECTED_LOOP ==
    (POLLING_DEVICES_INTERVAL_MS + 1000) \div DELAY_FOR_RETRIES

\* what the two catch clauses log: LOG_WARNING(e.what()) for a std::exception,
\* LOG_ERROR("Unknown error ...") for anything else
Caught == {"exception", "unknown"}

\* a fault of StopActivity: a failure to stop is ignored
StopActivityFailureIgnored ==
    /\ pc = "stop_activity"
    /\ pc' = "dfu"
    /\ raised' \in {raised, "stop_activity"}
    /\ UNCHANGED << params, history, roiVars, errorVars, transportVars, backupVars, al3dVars, sinkVars,
                    sectionArgs, dev_flash, merged_image, sector_index, i, todo, log,
                    valid, polls, sleeps, logged >>

\* stop_activity(), before the try block: what it throws reaches the caller
StopActivity ==
    /\ pc = "stop_activity"
    /\ \/ pc' = "dfu" /\ raised' = raised
       \/ pc' = "failed" /\ raised' = "stop_activity"
    /\ UNCHANGED << params, history, roiVars, errorVars, transportVars, backupVars, al3dVars, sinkVars, sectionArgs,
                    dev_flash, merged_image, sector_index, i, todo, log, valid,
                    polls, sleeps, logged >>

\* a fault of SendDFU: what the send throws reaches the caller
SendDFUUncaught ==
    /\ pc = "dfu"
    /\ \/ /\ log' = Append(log, Command("DFU", 1, 0))
          /\ pc' = "wait"
          /\ UNCHANGED << logged, raised >>
       \/ /\ log' = Append(log, Thrown("DFU", 1, 0))
          /\ raised' = "send"
          /\ pc' = "failed"
          /\ UNCHANGED logged
    /\ UNCHANGED << params, history, roiVars, errorVars, transportVars, backupVars, al3dVars, sinkVars, sectionArgs,
                    dev_flash, merged_image, sector_index, i, todo, valid, polls,
                    sleeps >>

\* command cmd(ds::DFU); cmd.param1 = 1; _hw_monitor->send(cmd), in the try block
SendDFU ==
    /\ pc = "dfu"
    /\ \/ /\ log' = Append(log, Command("DFU", 1, 0))
          /\ pc' = "wait"
          /\ UNCHANGED << logged, raised >>
       \/ \E c \in Caught :
            /\ log' = Append(log, Thrown("DFU", 1, 0))
            /\ raised' = "send"
            /\ logged' = Append(logged, c)
            /\ pc' = "done"
    /\ UNCHANGED << params, history, roiVars, errorVars, transportVars, backupVars, al3dVars, sinkVars, sectionArgs,
                    dev_flash, merged_image, sector_index, i, todo, valid, polls,
                    sleeps >>

\* a fault of PollValid: an absent device does not end the wait
PollValidNoReturn ==
    /\ pc = "wait"
    /\ i < MAX_ITERATIONS_FOR_DEVICE_DISCONNECTED_LOOP
    /\ \/ \E v \in BOOLEAN :
            /\ polls' = polls + 1
            /\ valid' = v
            /\ pc' = "sleep"
            /\ UNCHANGED << logged, raised >>
       \/ \E c \in Caught :
            /\ polls' = polls + 1
            /\ raised' = "is_valid"
            /\ logged' = Append(logged, c)
            /\ pc' = "done"
            /\ UNCHANGED valid
    /\ UNCHANGED << params, history, roiVars, errorVars, transportVars, backupVars, al3dVars, sinkVars, sectionArgs,
                    dev_flash, merged_image, sector_index, i, todo, log, sleeps >>

\* the loop test and if (!is_valid()) return;
PollValid ==
    /\ pc = "wait"
    /\ i < MAX_ITERATIONS_FOR_DEVICE_DISCONNECTED_LOOP
    /\ \/ \E v \in BOOLEAN :
            /\ polls' = polls + 1
            /\ valid' = v
            /\ pc' = IF v THEN "sleep" ELSE "done"
            /\ UNCHANGED << logged, raised >>
       \/ \E c \in Caught :      \* is_valid() throws
            /\ polls' = polls + 1
            /\ raised' = "is_valid"
            /\ logged' = Append(logged, c)
            /\ pc' = "done"
            /\ UNCHANGED valid
    /\ UNCHANGED << params, history, roiVars, errorVars, transportVars, backupVars, al3dVars, sinkVars, sectionArgs,
                    dev_flash, merged_image, sector_index, i, todo, log, sleeps >>

\* this_thread::sleep_for(milliseconds(DELAY_FOR_RETRIES)); i++
SleepStep ==
    /\ pc = "sleep"
    /\ sleeps' = sleeps + 1
    /\ i' = i + 1
    /\ pc' = "wait"
    /\ UNCHANGED << params, history, roiVars, errorVars, transportVars, backupVars, al3dVars, sinkVars, sectionArgs,
                    dev_flash, merged_image, sector_index, todo, log, valid, polls,
                    logged, raised >>

\* a fault of WaitEnd: the timeout warning is logged in every case
WaitEndAlwaysWarns ==
    /\ pc = "wait"
    /\ ~(i < MAX_ITERATIONS_FOR_DEVICE_DISCONNECTED_LOOP)
    /\ logged' = Append(logged, "timeout")
    /\ pc' = "done"
    /\ UNCHANGED << params, history, roiVars, errorVars, transportVars, backupVars, al3dVars, sinkVars,
                    sectionArgs, dev_flash, merged_image, sector_index, i, todo, log,
                    valid, polls, sleeps, raised >>

\* the loop ends: if (device_changed_notifications_on()) LOG_WARNING("Timeout ...")
WaitEnd ==
    /\ pc = "wait"
    /\ ~(i < MAX_ITERATIONS_FOR_DEVICE_DISCONNECTED_LOOP)
    /\ logged' = IF notifications THEN Append(logged, "timeout") ELSE logged
    /\ pc' = "done"
    /\ UNCHANGED << params, history, roiVars, errorVars, transportVars, backupVars, al3dVars, sinkVars, sectionArgs,
                    dev_flash, merged_image, sector_index, i, todo, log, valid,
                    polls, sleeps, raised >>

(***************************************************************************)
(* The command transport: _hw_monitor, one locked_transfer per device      *)
(***************************************************************************)
Threads == 1..NumThreads

\* what a step of one thread leaves alone
operationVars ==
    << backupVars, al3dVars, sinkVars, sectionArgs, enterVars, roiVars,
       errorVars, dev_flash, merged_image, sector_index, i, todo, log, pc >>

\* a thread calls _hw_monitor->send(cmd)
CallSend(t) ==
    /\ mode = "TRANSPORT"
    /\ tpc[t] = "idle"
    /\ sent[t] < MaxSends
    /\ tpc' = [tpc EXCEPT ![t] = "acquire"]
    /\ UNCHANGED << params, history, roiVars, errorVars, operationVars, lock, in_flight, sent >>

\* a fault of Acquire: the round trip starts without the mutex
AcquireUnlocked(t) ==
    /\ mode = "TRANSPORT"
    /\ tpc[t] = "acquire"
    /\ tpc' = [tpc EXCEPT ![t] = "request"]
    /\ UNCHANGED << params, history, roiVars, errorVars, operationVars, lock, in_flight, sent >>

\* locked_transfer: the mutex is taken for the whole round trip
Acquire(t) ==
    /\ mode = "TRANSPORT"
    /\ tpc[t] = "acquire"
    /\ lock = 0
    /\ lock' = t
    /\ tpc' = [tpc EXCEPT ![t] = "request"]
    /\ UNCHANGED << params, history, roiVars, errorVars, operationVars, in_flight, sent >>

\* the request is written to the channel, or the write fails
WriteRequest(t) ==
    /\ mode = "TRANSPORT"
    /\ tpc[t] = "request"
    /\ \/ /\ in_flight' = in_flight \cup {t}
          /\ tpc' = [tpc EXCEPT ![t] = "response"]
       \/ /\ in_flight' = in_flight
          /\ tpc' = [tpc EXCEPT ![t] = "release"]
    /\ UNCHANGED << params, history, roiVars, errorVars, operationVars, lock, sent >>

\* the response is read from the channel, or the wait for it fails
ReadResponse(t) ==
    /\ mode = "TRANSPORT"
    /\ tpc[t] = "response"
    /\ in_flight' = in_flight \ {t}
    /\ tpc' = [tpc EXCEPT ![t] = "release"]
    /\ UNCHANGED << params, history, roiVars, errorVars, operationVars, lock, sent >>

\* the round trip is over, by return or by exception: the mutex is released
Release(t) ==
    /\ mode = "TRANSPORT"
    /\ tpc[t] = "release"
    /\ lock' = IF lock = t THEN 0 ELSE lock
    /\ tpc' = [tpc EXCEPT ![t] = "idle"]
    /\ sent' = [sent EXCEPT ![t] = sent[t] + 1]
    /\ UNCHANGED << params, history, roiVars, errorVars, operationVars, in_flight >>

(***************************************************************************)
(* The runs                                                                *)
(***************************************************************************)
NoInfo ==
    [read_write_start_address |-> 0, read_write_size |-> 0, rw_offset |-> 0,
     rw_app_size |-> 0, rw_first_table_offset |-> 0,
     read_only_start_address |-> 0, read_only_size |-> 0, ro_offset |-> 0,
     ro_app_size |-> 0, ro_first_table_offset |-> 0]

\* ds::get_flash_info: a read-write section followed by a read-only section,
\* each an application blob followed by its tables, inside a flash of n bytes
Layout(rw_start, rw_app, rw_tables, ro_app, ro_tables) ==
    [read_write_start_address |-> rw_start,
     read_write_size |-> rw_app + rw_tables,
     rw_offset |-> rw_start,
     rw_app_size |-> rw_app,
     rw_first_table_offset |-> rw_start + rw_app,
     read_only_start_address |-> rw_start + rw_app + rw_tables,
     read_only_size |-> ro_app + ro_tables,
     ro_offset |-> rw_start + rw_app + rw_tables,
     ro_app_size |-> ro_app,
     ro_first_table_offset |-> rw_start + rw_app + rw_tables + ro_app]

Layouts(n, update_mode) ==
    { Layout(s, a, t, ra, rt) :
        << s, a, t, ra, rt >> \in
            { x \in (0..1) \X (1..MaxPart) \X (1..MaxPart) \X (1..MaxPart) \X (1..MaxPart) :
                /\ x[1] + x[2] + x[3] + x[4] + x[5] <= n
                /\ update_mode = "UPDATE" => x[4] = 1 /\ x[5] = 1 } }

\* the values a byte of the response takes
ResponseBytes == {1, 255}

\* the responses hw_monitor::send returns
Responses == UNION { [1..n -> ResponseBytes] : n \in 0..MaxResponseSize }

\* a region_of_interest not yet assigned
NoRoi == [min_y |-> -1, max_y |-> -1, min_x |-> -1, max_x |-> -1]

\* words[k] of reinterpret_cast<uint16_t*>(res.data()), low byte first
words(r, k) == r[2 * k + 1] + 256 * r[2 * k + 2]

\* image lengths of the alternate engine: below, at and between multiples of
\* the block size, and two beyond the range of the 16-bit block counter
ImageLengths ==
    { k * (transfer_size \div 2) : k \in 0..MaxHalfBlocks }
    \cup { 65536 * transfer_size + k * (transfer_size \div 2) : k \in 0..1 }

InitCommon ==
    /\ pc \in {"sector", "chunk", "prepare", "stop_activity", "threads", "roi_send"}
    /\ callback \in BOOLEAN
    /\ dev_flash = [a \in 1..FLASH_SIZE |-> OldByte(a - 1)]
    /\ flash = << >>
    /\ merged_image = << >>
    /\ continue_from = Zero
    /\ ratio = One
    /\ sector_index = first_sector(offset)
    /\ i = 0
    /\ todo = << >>
    /\ bi = 0
    /\ bj = 0
    /\ appended = FALSE
    /\ remaining_bytes = image_size
    /\ block_number = 0
    /\ blocks_sent = 0
    /\ poll = 0
    /\ al3d_offset = 0
    /\ block = NoBlock
    /\ result = "none"
    /\ ret = 0
    /\ slept = 0
    /\ log = << >>
    /\ calls = 0
    /\ progress = Zero
    /\ valid = TRUE
    /\ polls = 0
    /\ sleeps = 0
    /\ logged = << >>
    /\ raised = "none"
    /\ lock = 0
    /\ tpc = [t \in Threads |-> "idle"]
    /\ in_flight = {}
    /\ sent = [t \in Threads |-> 0]
    /\ run = 1
    /\ first_flash = << >>
    /\ res = << >>
    /\ roi = NoRoi
    /\ is_al3d_fw_update_start = FALSE
    /\ query_at = "none"
    /\ epc = IF mode = "AL3D_FULL" /\ image_size = transfer_size
             THEN "call" ELSE "none"

\* a run that is not enter_update_state
NoWait ==
    /\ POLLING_DEVICES_INTERVAL_MS = 0
    /\ DELAY_FOR_RETRIES = 1
    /\ notifications = FALSE

\* the flash geometry of a run
Geometry ==
    /\ NoWait
    /\ FLASH_SECTOR_SIZE \in 1..MaxSectorSize
    /\ HW_MONITOR_COMMAND_SIZE \in 1..MaxCommandSize
    /\ FLASH_SIZE = NumSectors * FLASH_SECTOR_SIZE

\* update_flash_section(hwm, image, offset, size, callback, 0, 1)
InitSection ==
    /\ mode = "SECTION"
    /\ pc = "sector"
    /\ Geometry
    /\ max_bulk_size = 1
    /\ image_size = FLASH_SIZE
    /\ info = NoInfo
    /\ offset \in 0..image_size
    /\ size \in 0..(image_size - offset)

\* backup_flash(callback)
InitBackup ==
    /\ NoWait
    /\ mode = "BACKUP"
    /\ pc = "chunk"
    /\ FLASH_SECTOR_SIZE = 1
    /\ HW_MONITOR_COMMAND_SIZE = 1
    /\ FLASH_SIZE \in 2..(NumSectors * MaxSectorSize)
    /\ max_bulk_size \in 1..MaxBulkSize
    /\ max_bulk_size < FLASH_SIZE
    /\ image_size = 0
    /\ info = NoInfo
    /\ offset = 0
    /\ size = 0

\* update_flash(image, callback, update_mode), the sector protocol
InitUpdate ==
    /\ mode \in {"FULL", "UPDATE", "READ_ONLY", "INVALID"}
    /\ pc = "prepare"
    /\ Geometry
    /\ max_bulk_size = MaxBulkSize
    /\ max_bulk_size < FLASH_SIZE
    /\ image_size \in (IF mode = "FULL" THEN {FLASH_SIZE - 1, FLASH_SIZE} ELSE {FLASH_SIZE})
    /\ info \in (IF mode \in {"UPDATE", "READ_ONLY"}
                 THEN Layouts(FLASH_SIZE, mode) ELSE {NoInfo})
    /\ offset = 0
    /\ size = 0

\* update_flash(image, callback, AL3D_UNSIGNED_UPDATE_MODE_FULL)
InitAl3d ==
    /\ NoWait
    /\ mode = "AL3D_FULL"
    /\ pc = "prepare"
    /\ FLASH_SECTOR_SIZE = 1
    /\ HW_MONITOR_COMMAND_SIZE = 1
    /\ FLASH_SIZE = 1
    /\ max_bulk_size = 1
    /\ image_size \in ImageLengths
    /\ info = NoInfo
    /\ offset = 0
    /\ size = 0

\* the caller runs update_flash(image, callback, UPDATE) again with the same
\* image after a first run in which every command succeeded
UpdateAgain ==
    /\ mode = "UPDATE"
    /\ pc = "done"
    /\ run = 1
    /\ \A k \in 1..Len(log) : log[k].ok
    /\ run' = 2
    /\ first_flash' = dev_flash
    /\ pc' = "prepare"
    /\ flash' = << >>
    /\ merged_image' = << >>
    /\ continue_from' = Zero
    /\ ratio' = One
    /\ sector_index' = first_sector(0)
    /\ i' = 0
    /\ todo' = << >>
    /\ bi' = 0
    /\ bj' = 0
    /\ appended' = FALSE
    /\ log' = << >>
    /\ calls' = 0
    /\ progress' = Zero
    /\ offset' = 0
    /\ size' = 0
    /\ UNCHANGED << params, al3dVars, enterVars, transportVars, roiVars,
                    errorVars, dev_flash >>

\* enter_update_state()
InitEnterUpdate ==
    /\ mode = "ENTER_UPDATE"
    /\ pc = "stop_activity"
    /\ POLLING_DEVICES_INTERVAL_MS \in { 1000 * k : k \in 0..MaxIntervalSeconds }
    /\ DELAY_FOR_RETRIES \in { 500 * k : k \in 1..MaxDelayUnits }
    /\ notifications \in BOOLEAN
    /\ FLASH_SECTOR_SIZE = 1
    /\ HW_MONITOR_COMMAND_SIZE = 1
    /\ FLASH_SIZE = 1
    /\ max_bulk_size = 1
    /\ image_size = 0
    /\ info = NoInfo
    /\ offset = 0
    /\ size = 0

\* threads that call _hw_monitor->send on the device
InitTransport ==
    /\ mode = "TRANSPORT"
    /\ pc = "threads"
    /\ NoWait
    /\ FLASH_SECTOR_SIZE = 1
    /\ HW_MONITOR_COMMAND_SIZE = 1
    /\ FLASH_SIZE = 1
    /\ max_bulk_size = 1
    /\ image_size = 0
    /\ info = NoInfo
    /\ offset = 0
    /\ size = 0

(***************************************************************************)
(* ds5_auto_exposure_roi_method::get                                       *)
(***************************************************************************)
InitRoi ==
    /\ mode = "ROI_GET"
    /\ pc = "roi_send"
    /\ NoWait
    /\ FLASH_SECTOR_SIZE = 1
    /\ HW_MONITOR_COMMAND_SIZE = 1
    /\ FLASH_SIZE = 1
    /\ max_bulk_size = 1
    /\ image_size = 0
    /\ info = NoInfo
    /\ offset = 0
    /\ size = 0

\* command cmd(_cmd + 1); auto res = _hw_monitor.send(cmd);
RoiSend ==
    /\ pc = "roi_send"
    /\ \/ /\ log' = Append(log, Thrown("_cmd + 1", 0, 0))
          /\ pc' = "failed"
          /\ res' = res
       \/ /\ log' = Append(log, Command("_cmd + 1", 0, 0))
          /\ res' \in Responses
          /\ pc' = "roi_check"
    /\ UNCHANGED << params, history, errorVars, transportVars, enterVars,
                    backupVars, al3dVars, sinkVars, sectionArgs, dev_flash,
                    merged_image, sector_index, i, todo, roi >>

\* the step below with a short response answered by another send
RoiDecodeRetries ==
    /\ pc = "roi_check"
    /\ IF Len(res) < 4 * 2
       THEN pc' = "roi_send" /\ roi' = roi
       ELSE /\ roi' = [min_y |-> words(res, 0), max_y |-> words(res, 1),
                       min_x |-> words(res, 2), max_x |-> words(res, 3)]
            /\ pc' = "done"
    /\ UNCHANGED << params, history, errorVars, transportVars, enterVars,
                    backupVars, al3dVars, sinkVars, sectionArgs, dev_flash,
                    merged_image, sector_index, i, todo, log, res >>

\* the size test, then the four words of the response
RoiDecode ==
    /\ pc = "roi_check"
    /\ IF Len(res) < 4 * 2          \* 4 * sizeof(uint16_t)
       THEN pc' = "failed" /\ roi' = roi
       ELSE /\ roi' = [min_y |-> words(res, 0), max_y |-> words(res, 1),
                       min_x |-> words(res, 2), max_x |-> words(res, 3)]
            /\ pc' = "done"
    /\ UNCHANGED << params, history, errorVars, transportVars, enterVars,
                    backupVars, al3dVars, sinkVars, sectionArgs, dev_flash,
                    merged_image, sector_index, i, todo, log, res >>

(***************************************************************************)
(* ds5_device::get_al3d_error, called on a second thread during            *)
(* update_flash                                                            *)
(***************************************************************************)
\* the product and firmware version tests pass; if (!_is_al3d_fw_update_start)
ErrCheck ==
    /\ epc = "call"
    /\ epc' = IF is_al3d_fw_update_start THEN "return" ELSE "query"
    /\ UNCHANGED << params, history, roiVars, transportVars, enterVars,
                    backupVars, al3dVars, sinkVars, sectionArgs, dev_flash,
                    merged_image, sector_index, i, todo, log, pc,
                    is_al3d_fw_update_start, query_at >>

\* al3d_device_xu_cmd->get_PTS_Time(&err_code_0, &err_code_1), caught if it throws
ErrQuery ==
    /\ epc = "query"
    /\ query_at' = pc
    /\ epc' = "return"
    /\ UNCHANGED << params, history, roiVars, transportVars, enterVars,
                    backupVars, al3dVars, sinkVars, sectionArgs, dev_flash,
                    merged_image, sector_index, i, todo, log, pc,
                    is_al3d_fw_update_start >>

Init ==
    /\ InitSection \/ InitBackup \/ InitUpdate \/ InitAl3d \/ InitEnterUpdate
       \/ InitTransport \/ InitRoi
    /\ InitCommon

Next ==
    \/ EraseStep \/ WriteStep \/ SectorDone \/ SectionReturn
    \/ NextChunk \/ ReadAttempt \/ ChunkDone \/ BackupEnd
    \/ Merge
    \/ Al3dInit \/ Al3dStatus \/ Al3dBlock \/ Al3dLastBlock \/ Al3dBlocksEnd
    \/ Al3dStart \/ Al3dPoll \/ Al3dPollEnd \/ Al3dProgress \/ Al3dEnd
    \/ Prepare \/ SwitchFull \/ SwitchUpdate \/ SwitchAl3d \/ SwitchDefault
    \/ FinalProgress \/ Reset
    \/ UpdateAgain
    \/ StopActivity \/ SendDFU \/ PollValid \/ SleepStep \/ WaitEnd
    \/ RoiSend \/ RoiDecode
    \/ ErrCheck \/ ErrQuery
    \/ \E t \in Threads :
          CallSend(t) \/ Acquire(t) \/ WriteRequest(t) \/ ReadResponse(t) \/ Release(t)

Spec == Init /\ [][Next]_vars

(***************************************************************************)
(* Properties                                                              *)
(***************************************************************************)
Entries(c) == { k \in DOMAIN log : log[k].cmd = c }
AllSucceeded == \A k \in DOMAIN log : log[k].ok
SectorOf(a) == a \div FLASH_SECTOR_SIZE
CeilDiv(a, b) == (a + b - 1) \div b

\* C1: when update_flash_section returns and every command succeeded, every
\* flash byte at an address in [offset, offset + size) equals the image byte
\* at the same address.
C1_RangeProgrammed ==
    (mode = "SECTION" /\ pc = "done" /\ AllSucceeded /\ offset + size <= image_size)
        => \A a \in offset..(offset + size - 1) : dev_flash[a + 1] = ImageByte(a)

\* C2: one call of update_flash_section on a non-empty range erases exactly the
\* sectors floor(offset/Z) .. ceil((offset+size)/Z)-1, each exactly once, and
\* each before any write to that sector.
C2_ErasesExactlyTouchedSectors ==
    (mode = "SECTION" /\ pc = "done" /\ AllSucceeded /\ size > 0)
        => LET lo == offset \div FLASH_SECTOR_SIZE
               hi == CeilDiv(offset + size, FLASH_SECTOR_SIZE) - 1
           IN  /\ \A s \in lo..hi :
                     Cardinality({ k \in Entries("FES") : log[k].param1 = s }) = 1
               /\ \A k \in Entries("FES") : log[k].param1 \in lo..hi
               /\ \A k \in Entries("FWB") : \A j \in Entries("FES") :
                     log[j].param1 = SectorOf(log[k].param1) => j < k

\* two packet writes that store to a common byte
Overlap(k1, k2) ==
    /\ log[k1].param1 < log[k2].param1 + log[k2].param2
    /\ log[k2].param1 < log[k1].param1 + log[k1].param2

ErasedBetween(s, k1, k2) ==
    \E j \in Entries("FES") : j > k1 /\ j < k2 /\ log[j].ok /\ log[j].param1 = s

\* C3: in every update_flash run of the sector protocol, every packet write
\* into sector s comes after an erase of s in the same run, and no byte is
\* written twice without an erase of its sector in between.
C3_EraseBeforeWrite ==
    mode \in {"FULL", "UPDATE", "READ_ONLY"}
        => \A k \in Entries("FWB") :
              /\ ErasedBetween(SectorOf(log[k].param1), 0, k)
              /\ \A k2 \in Entries("FWB") :
                    (k < k2 /\ Overlap(k, k2))
                        => ErasedBetween(SectorOf(log[k].param1), k, k2)

\* a finished update in which some byte was written, erased and written again
C3_Witness ==
    /\ mode \in {"UPDATE", "READ_ONLY"}
    /\ pc = "done"
    /\ \E k \in Entries("FWB") : \E k2 \in Entries("FWB") : k < k2 /\ Overlap(k, k2)

InReadWriteSection(a) ==
    /\ a >= info.read_write_start_address
    /\ a < info.read_write_start_address + info.read_write_size

\* C4: after a successful update_flash in mode UPDATE, every flash byte outside
\* the read-write section's byte range has the value it had before the update.
C4_RestOfFlashPreserved ==
    (mode = "UPDATE" /\ pc = "done" /\ AllSucceeded)
        => \A a \in 0..(FLASH_SIZE - 1) :
              ~InReadWriteSection(a) => dev_flash[a + 1] = OldByte(a)

Reads == SelectSeq(log, LAMBDA e : e.cmd = "FRB")

Attempts(c) == { k \in Entries("FRB") : log[k].param1 = ChunkOffset(c) }

\* backup_flash has stopped trying chunk c without having read it
GivenUp(c) ==
    /\ \A k \in Attempts(c) : ~log[k].ok
    /\ \/ c < bi
       \/ c = bi /\ pc = "failed" /\ Attempts(c) # {}

\* C6: in backup_flash a failed read of a chunk (one with bytes to read) is
\* retried until it succeeds or 3 attempts were made for the chunk, with a
\* delay between consecutive attempts; no chunk is given up after fewer than
\* 3 failed attempts.
C6_ThreeAttemptsPerChunk ==
    mode = "BACKUP"
        => \A c \in { x \in 0..(max_iterations - 1) : ChunkSize(x) > 0 } :
              /\ Cardinality(Attempts(c)) <= retries
              /\ GivenUp(c) => Cardinality(Attempts(c)) = retries
              /\ \A k \in Attempts(c) : \A k2 \in Attempts(c) :
                    k < k2 => \E d \in Entries("sleep") : k < d /\ d < k2

\* C7: whenever backup_flash returns normally, the returned buffer holds the
\* response of every chunk, in ascending offset order from 0, none missing.
C7_NoPartialBackup ==
    (mode = "BACKUP" /\ pc = "done")
        => /\ \A c \in 0..(max_iterations - 1) : ~GivenUp(c)
           /\ flash = dev_flash

\* C8: within one update_flash run, in every mode, a value passed to the
\* progress sink is never below the value passed before it.
C8_ProgressMonotone ==
    [][(mode \in {"FULL", "UPDATE", "READ_ONLY", "AL3D_FULL"}
            /\ calls > 0 /\ calls' = calls + 1)
        => ~FLt(progress', progress)]_vars

\* C9: when backup_flash or update_flash, given a progress sink, completes
\* successfully, the sink was called and the last value it received is 1.0.
C9_EndsAtOne ==
    (callback /\ pc = "done"
        /\ mode \in {"BACKUP", "FULL", "UPDATE", "READ_ONLY", "AL3D_FULL"})
        => (calls > 0 /\ progress = One)

\* an update of the alternate engine completed with a sink, for an image
\* shorter than one block
C9_Witness ==
    /\ callback
    /\ pc = "done"
    /\ mode = "AL3D_FULL"
    /\ image_size > 0
    /\ image_size < transfer_size

\* C10: every value the alternate engine passes to the progress sink is a
\* number in [0.0, 1.0].
C10_Al3dProgressInRange ==
    (mode = "AL3D_FULL" /\ calls > 0)
        => FIsNumber(progress) /\ FLeq(Zero, progress) /\ FLeq(progress, One)

RecognizedModes == {"FULL", "UPDATE", "READ_ONLY", "AL3D_FULL"}
Last(q) == q[Len(q)]

\* the run failed because a send of an erase, write, backup read or
\* alternate-protocol command threw
StepFailed ==
    /\ pc = "failed"
    /\ log # << >>
    /\ ~Last(log).ok
    /\ Last(log).cmd \in {"FES", "FWB", "FRB", "set_cmd", "get_cmd"}

\* C11: every update_flash run with a recognized mode ends by
\* sending the reset command: on success exactly one, as the last command;
\* when a step fails a reset is still sent before the error reaches the caller.
C11_ResetAlways ==
    mode \in RecognizedModes
        => /\ pc = "done" => (Cardinality(Entries("HWRST")) = 1 /\ Last(log).cmd = "HWRST")
           /\ StepFailed => Entries("HWRST") # {}

\* What update_flash does: on success exactly one reset is sent and it is the
\* last command of the operation; when the operation fails before the reset,
\* no reset command is sent at all.
ResetOnSuccessOnly ==
    mode \in RecognizedModes
        => /\ pc = "done"
                => (Cardinality(Entries("HWRST")) = 1 /\ Last(log) = Command("HWRST", 0, 0))
           /\ (pc = "failed" /\ (log = << >> \/ Last(log).cmd # "HWRST"))
                => Entries("HWRST") = {}

\* C12: update_flash with an unrecognized mode raises the invalid-mode error
\* with no command of any kind sent to the device.
C12_InvalidModeBeforeAccess ==
    (mode = "INVALID" /\ pc = "failed" /\ AllSucceeded) => log = << >>

C14_UpdateIdempotent ==
    (mode = "UPDATE" /\ run = 2 /\ pc = "done" /\ AllSucceeded)
        => dev_flash = first_flash

\* a second run that ended, over a read-write section that starts inside a
\* sector and has old content on both sides
C14_Witness ==
    /\ mode = "UPDATE"
    /\ run = 2
    /\ pc = "done"
    /\ AllSucceeded
    /\ info.read_write_start_address = 1
    /\ \E a \in 1..FLASH_SIZE : dev_flash[a] = NewByte(a - 1)
    /\ \E a \in 1..FLASH_SIZE : dev_flash[a] = OldByte(a - 1)

\* positions of a run of the alternate engine after its data block loop
AfterBlocks ==
    {"al3d_start", "al3d_poll", "al3d_progress", "al3d_end", "final_progress",
     "reset", "done"}

\* C15: for every image length L the alternate engine sends exactly
\* ceil(L/512) data blocks, each of exactly 512 bytes; the k-th block (k from
\* 0) carries the image bytes [512k, min(512k+512, L)) in order, and every
\* byte of the final block beyond L is zero.
C15_BlocksCoverImage ==
    mode = "AL3D_FULL"
        => /\ blocks_sent > 0
                => /\ block.size = 512
                   /\ block.offset = 512 * (blocks_sent - 1)
                   /\ block.copied = Min(512, image_size - block.offset)
                   /\ block.copied > 0
           /\ pc \in AfterBlocks => blocks_sent = CeilDiv(image_size, 512)

\* a run over an image of one whole block and a half: the second block is
\* half image, half zeros
C15_Witness ==
    /\ mode = "AL3D_FULL"
    /\ pc = "done"
    /\ image_size = 768
    /\ blocks_sent = 2
    /\ block = Block(512, 256, 512)

\* positions of a run of the alternate engine after its poll loop
AfterPoll == {"al3d_progress", "al3d_end", "final_progress", "reset", "done"}

\* C16: when the result record read at poll iteration k (1 <= k <= 600) has
\* its first four fields zero, the loop ends at iteration k: no further
\* result record is read, so exactly k were read after the start command, and
\* al3d_fw_update_start runs to its end without an error (only the reset
\* command that update_flash sends afterwards can still fail).
C16_CompletionEndsPoll ==
    /\ [](mode = "AL3D_FULL" /\ result = "complete"
            => /\ poll \in 1..max_loop
               /\ \/ pc \in AfterPoll
                  \/ pc = "failed" /\ Last(log) = Thrown("HWRST", 0, 0))
    /\ [][result = "complete" => (poll' = poll /\ result' = result)]_vars

\* a run whose second result record was the completion record
C16_Witness ==
    /\ mode = "AL3D_FULL"
    /\ result = "complete"
    /\ poll = 2
    /\ pc = "done"
    /\ AllSucceeded

\* C17: when a result record of the poll loop carries a fault code, the
\* operation fails at that iteration and does nothing afterwards: no further
\* result read, no reset command or other command, no further sink value.
C17_FaultIsFatal ==
    /\ [](mode = "AL3D_FULL" /\ result = "fault"
            => /\ pc = "failed"
               /\ poll \in 1..max_loop
               /\ Entries("HWRST") = {})
    /\ [][result = "fault" => UNCHANGED << poll, result, log, calls, progress >>]_vars

\* a run with a progress sink whose third result record carried a fault code
C17_Witness ==
    /\ mode = "AL3D_FULL"
    /\ result = "fault"
    /\ poll = 3
    /\ calls > 0
    /\ pc = "failed"

\* C18: in enter_update_state, when is_valid() returns false at some poll the
\* function returns at once: no further poll is made, no further sleep is
\* taken (one sleep per earlier poll, none after this one) and no timeout
\* warning is logged.
C18_ReturnsWhenDeviceGone ==
    /\ [](mode = "ENTER_UPDATE" /\ ~valid
            => /\ pc = "done"
               /\ polls = i + 1
               /\ sleeps = polls - 1
               /\ logged = << >>)
    /\ [][~valid => UNCHANGED << polls, sleeps, logged, log, i >>]_vars

\* the device is found gone at the second poll, with notifications on
C18_Witness ==
    /\ mode = "ENTER_UPDATE"
    /\ ~valid
    /\ polls = 2
    /\ polls < MAX_ITERATIONS_FOR_DEVICE_DISCONNECTED_LOOP
    /\ notifications
    /\ pc = "done"

\* C19: enter_update_state never propagates an exception raised by the send
\* of the enter-update-mode command or by the presence polling: the exception
\* is caught and logged, once, and the function returns normally.
C19_ExceptionsCaught ==
    (mode = "ENTER_UPDATE" /\ raised \in {"send", "is_valid"})
        => /\ pc = "done"
           /\ Len(logged) = 1
           /\ logged[1] \in Caught

\* the presence polling threw at the second poll
C19_Witness ==
    /\ mode = "ENTER_UPDATE"
    /\ raised = "is_valid"
    /\ polls = 2
    /\ pc = "done"

\* positions of a thread inside its request/response round trip
RoundTrip == {"request", "response", "release"}

\* C20: the round trips of send calls issued by different threads on the same
\* device never overlap, and at most one command is in flight on the channel
\* at any time.
C20_TransportMutualExclusion ==
    mode = "TRANSPORT"
        => /\ Cardinality(in_flight) <= 1
           /\ \A t, u \in Threads :
                (t # u /\ tpc[t] \in RoundTrip) => tpc[u] \notin RoundTrip

\* one thread's command is in flight while another thread, which has sent
\* before, waits for the transport
C20_Witness ==
    /\ mode = "TRANSPORT"
    /\ \E t, u \in Threads :
          /\ t # u
          /\ t \in in_flight
          /\ tpc[u] = "acquire"
          /\ sent[u] > 0

\* equality of two float values that are numbers
FEq(x, y) == FLeq(x, y) /\ FLeq(y, x)

\* C21: update_flash_section writes only inside the requested range: the byte
\* range [param1, param1 + param2) of every packet-write command lies within
\* [offset, offset + size), also for ranges that start or end inside a sector.
C21_WritesInsideRange ==
    mode = "SECTION"
        => \A k \in Entries("FWB") :
              /\ log[k].param1 >= offset
              /\ log[k].param1 + log[k].param2 <= offset + size

\* C22: every packet-write command has a length between 1 and the maximum
\* single-command payload, carries its own absolute offset (that of the byte
\* after the previous packet of the sector, the sector's first byte for the
\* first packet after the erase) and never crosses a sector boundary.
C22_PacketsWellFormed ==
    \A k \in Entries("FWB") :
        /\ log[k].param2 >= 1
        /\ log[k].param2 <= HW_MONITOR_COMMAND_SIZE
        /\ SectorOf(log[k].param1) = SectorOf(log[k].param1 + log[k].param2 - 1)
        /\ k > 1
        /\ log[k - 1].cmd = "FES"
              => log[k].param1 = log[k - 1].param1 * FLASH_SECTOR_SIZE
        /\ log[k - 1].cmd = "FWB"
              => log[k].param1 = log[k - 1].param1 + log[k - 1].param2
        /\ log[k - 1].cmd \in {"FES", "FWB"}

\* a sector of three bytes written in packets of at most two: the second
\* packet is cut at the end of the sector
C22_Witness ==
    /\ FLASH_SECTOR_SIZE = 3
    /\ HW_MONITOR_COMMAND_SIZE = 2
    /\ \E k \in Entries("FWB") :
          /\ k > 1
          /\ log[k - 1].cmd = "FWB"
          /\ log[k].ok
          /\ log[k].param2 = 1
          /\ log[k].param1 % FLASH_SECTOR_SIZE = 2

\* C23: every packet-write payload is read from inside the image buffer the
\* operation was given: param1 + param2 <= the buffer's length for every
\* packet, and no read leaves the buffer, in every mode, FULL with an image
\* shorter than the flash included.
C23_PayloadInsideImage ==
    /\ pc # "crashed"
    /\ \A k \in Entries("FWB") : log[k].param1 + log[k].param2 <= SourceSize

\* C24: after the k-th of the n sectors of an update_flash_section call the
\* sink receives continue_from + (k / n) * ratio; after the last sector it
\* receives continue_from + ratio.
C24_SectorProgressValue ==
    (mode = "SECTION" /\ calls > 0)
        => FEq(progress,
               FAdd(continue_from,
                    FMul(FDiv(calls, CeilDiv(size, FLASH_SECTOR_SIZE)), ratio)))

\* FRB commands that returned their bytes
SuccessfulReads == { k \in Entries("FRB") : log[k].ok }

\* C25: in backup_flash the sink is invoked only after a chunk was read
\* successfully, the k-th invocation with k / total_chunks, and after the
\* final chunk with exactly 1.0.
C25_BackupProgressValue ==
    (mode = "BACKUP" /\ callback /\ calls > 0)
        => IF pc = "done"
           THEN progress = One
           ELSE /\ Cardinality(SuccessfulReads) >= calls
                /\ FEq(progress, FDiv(calls, max_iterations))

\* C26: in mode READ_ONLY every value reported while the read-write section
\* is written lies in [0, 0.5] and every value reported while the read-only
\* section (application blob, then tables) is written lies in [0.5, 1.0].
\* update_flash_internal makes four update_flash_section calls; during the
\* first two (read-write section) at least two calls are still to be made.
C26_ReadOnlyHalves ==
    [][(mode = "READ_ONLY" /\ pc = "packet" /\ calls' = calls + 1)
        => IF Len(todo) >= 2
           THEN FLeq(Zero, progress') /\ FLeq(progress', Half)
           ELSE FLeq(Half, progress') /\ FLeq(progress', One)]_vars

\* number of erase commands in the log before position k
ErasesBefore(k) == Cardinality({ j \in Entries("FES") : j < k })

WritesInto(from, n) ==
    { k \in Entries("FWB") :
        log[k].param1 < from + n /\ log[k].param1 + log[k].param2 > from }

\* every command of the set a precedes every command of the set b
AllBefore(a, b) == \A k \in a : \A j \in b : k < j

\* the first command of the set a is not later than any command of the set b
StartsBefore(a, b) == b # {} => \E k \in a : \A j \in b : k <= j

\* the backup has stopped trying some chunk without having read it
BackupFailed == \E c \in 0..(max_iterations - 1) : GivenUp(c)

\* C28 (a): every read command of the backup precedes the first erase
C28_ReadsBeforeErases == AllBefore(Entries("FRB"), Entries("FES"))

\* C28 (b): in each section the first write into the application blob comes
\* before the writes into the tables region
C28_AppBeforeTables ==
    /\ StartsBefore(WritesInto(info.rw_offset, info.rw_app_size),
                    WritesInto(info.rw_first_table_offset,
                               tables_size(info, "read_write")))
    /\ StartsBefore(WritesInto(info.ro_offset, info.ro_app_size),
                    WritesInto(info.ro_first_table_offset,
                               tables_size(info, "read_only")))

\* C28 (c): if the backup fails no erase or write command is ever sent
C28_NoWriteAfterFailedBackup ==
    BackupFailed => (Entries("FES") = {} /\ Entries("FWB") = {})

\* C28: in modes UPDATE and READ_ONLY every read command of the backup
\* precedes the first erase command, the application blob of a section is
\* written before its tables region, and if the backup fails (a chunk could
\* not be read) no erase or write command is ever sent by the operation.
C28_BackupThenSections ==
    mode \in {"UPDATE", "READ_ONLY"}
        => /\ C28_ReadsBeforeErases
           /\ C28_AppBeforeTables
           /\ C28_NoWriteAfterFailedBackup

\* the flash content when the run started
InitialFlash ==
    IF run = 1 THEN [a \in 1..FLASH_SIZE |-> OldByte(a - 1)] ELSE first_flash

\* the flash content after the erase and write commands among the first k
\* entries of the log that succeeded
RECURSIVE Replay(_)
Replay(k) ==
    IF k = 0 THEN InitialFlash
    ELSE LET e == log[k]
             before == Replay(k - 1)
         IN  IF e.ok /\ e.cmd = "FES" THEN EraseSector(before, e.param1)
             ELSE IF e.ok /\ e.cmd = "FWB"
                  THEN WritePacket(before, e.param1, PacketData(e.param1, e.param2))
                  ELSE before

\* erase and write commands whose send failed
FailedWrites == { k \in Entries("FES") \cup Entries("FWB") : ~log[k].ok }

\* C29: when the send of an erase or packet-write command fails during
\* update_flash (modes FULL, UPDATE, READ_ONLY) the operation aborts: the
\* failed command is the last one sent, the error reaches the caller and the
\* flash holds exactly the effect of the commands that succeeded before.
C29_WriteFailureAborts ==
    (mode \in {"FULL", "UPDATE", "READ_ONLY"} /\ FailedWrites # {})
        => /\ FailedWrites = {Len(log)}
           /\ pc = "failed"
           /\ dev_flash = Replay(Len(log))

\* an update in mode UPDATE whose packet write failed in the second sector it
\* erased
C29_Witness ==
    /\ mode = "UPDATE"
    /\ pc = "failed"
    /\ Last(log).cmd = "FWB"
    /\ ~Last(log).ok
    /\ Cardinality(Entries("FES")) = 2
    /\ \E a \in 1..FLASH_SIZE : dev_flash[a] = Erased
    /\ \E a \in 1..FLASH_SIZE : dev_flash[a] = NewByte(a - 1)

\* modes of update_flash
UpdateModes == {"FULL", "UPDATE", "READ_ONLY", "AL3D_FULL", "INVALID"}

\* C30: if update_flash fails, in any mode, the progress sink was not called
\* with 1.0 during the operation: once the sink has received 1.0 (here: as
\* the value it received last) no step of the operation fails.
C30_NoOneBeforeFailure ==
    [][(mode \in UpdateModes /\ calls > 0 /\ FEq(progress, One))
        => pc' # "failed"]_vars

\* the init commands, the start commands and the logged result reads of the
\* alternate engine
InitCommands == { k \in Entries("set_cmd") : log[k].param1 = 196609 }
StartCommands == { k \in Entries("set_cmd") : log[k].param1 = 196865 }
StatusReads == Entries("get_cmd")

\* C31: the alternate engine is strictly sequential: one init command, then
\* one result read, then all data blocks, then one start command, then the
\* poll reads; no block is sent before the init command and its result read
\* or after the start command, and the start command is not sent before the
\* last block.
C31_Al3dSequential ==
    mode = "AL3D_FULL"
        => /\ Cardinality(InitCommands) <= 1
           /\ Cardinality(StatusReads) <= 1
           /\ Cardinality(StartCommands) <= 1
           /\ Entries("set_cmd") = InitCommands \cup StartCommands
           /\ AllBefore(InitCommands, StatusReads)
           /\ AllBefore(StatusReads, StartCommands)
           /\ blocks_sent > 0
                => /\ \E k \in InitCommands : log[k].ok
                   /\ \E k \in StatusReads : log[k].ok
           /\ StartCommands # {}
                => /\ StatusReads # {}
                   /\ blocks_sent = CeilDiv(image_size, 512)
           /\ poll > 0 => \E k \in StartCommands : log[k].ok

\* a run of two blocks and two poll reads that ended
C31_Witness ==
    /\ mode = "AL3D_FULL"
    /\ pc = "done"
    /\ blocks_sent = 2
    /\ poll = 2
    /\ Len(log) = 5

\* C32: the init and the start command carry the same size value, the image
\* length rounded up to the next multiple of 512, and different tags.
C32_SameSizeDifferentTags ==
    mode = "AL3D_FULL"
        => /\ \A k \in Entries("set_cmd") :
                log[k].param2 = CeilDiv(image_size, 512) * 512
           /\ \A k \in InitCommands : \A j \in StartCommands :
                log[k].param1 # log[j].param1 /\ log[k].param2 = log[j].param2

\* both commands were sent for an image of one block and a half
C32_Witness ==
    /\ mode = "AL3D_FULL"
    /\ image_size = 768
    /\ \E k \in InitCommands : log[k].ok /\ log[k].param2 = 1024
    /\ \E k \in StartCommands : log[k].ok /\ log[k].param2 = 1024

PollExhausted ==
    /\ mode = "AL3D_FULL"
    /\ poll = max_loop
    /\ result = "busy"
    /\ pc # "al3d_poll"

\* C34: the poll loop makes at most 600 result reads, each preceded by a
\* sleep; when none of the 600 records is a completion or a fault the
\* operation goes on as a success: 1.0 is reported and update_flash sends the
\* reset command (only the send of the reset can still fail).
C34_PollBounded ==
    mode = "AL3D_FULL"
        => /\ poll <= 600
           /\ slept <= 600
           /\ poll <= slept
           /\ PollExhausted
                => /\ \/ pc \in AfterPoll
                      \/ pc = "failed" /\ Last(log) = Thrown("HWRST", 0, 0)
                   /\ (callback /\ pc \in {"final_progress", "reset", "done"})
                         => progress = One
                   /\ pc = "done" => Last(log) = Command("HWRST", 0, 0)

\* a run with a progress sink whose 600 result records were all busy
C34_Witness ==
    /\ PollExhausted
    /\ slept = 600
    /\ callback
    /\ calls > 0
    /\ pc = "done"

WaitBound == (POLLING_DEVICES_INTERVAL_MS + 1000) \div DELAY_FOR_RETRIES

\* the wait loop ran out with the device still present
WaitExhausted ==
    /\ mode = "ENTER_UPDATE"
    /\ pc = "done"
    /\ valid
    /\ raised = "none"

\* C36: enter_update_state terminates: it makes at most (detection window +
\* 1000 ms) / retry delay presence polls, takes one sleep after each poll that
\* found the device present, and returns after the last of them.
C36_WaitBounded ==
    mode = "ENTER_UPDATE"
        => /\ polls <= WaitBound
           /\ sleeps = i
           /\ sleeps <= polls
           /\ polls <= sleeps + 1
           /\ pc = "wait" => sleeps = polls
           /\ pc = "sleep" => (valid /\ polls = sleeps + 1)
           /\ WaitExhausted => (polls = WaitBound /\ sleeps = WaitBound)

\* a wait of three polls and three sleeps that ran out
C36_Witness ==
    /\ WaitExhausted
    /\ polls = 3
    /\ sleeps = 3

\* C37: when the wait loop runs out with the device still present the
\* function returns normally, no error raised, and the timeout warning is
\* logged if and only if device-change notifications are on.
C37_TimeoutWarning ==
    (mode = "ENTER_UPDATE" /\ polls = WaitBound /\ valid /\ raised = "none"
        /\ pc \notin {"stop_activity", "dfu", "wait", "sleep"})
        => /\ pc = "done"
           /\ logged = IF notifications THEN << "timeout" >> ELSE << >>

\* the wait ran out with notifications on and the warning was logged
C37_Witness ==
    /\ WaitExhausted
    /\ polls = 2
    /\ notifications
    /\ logged = << "timeout" >>

\* C38: stopping the device activity completes before the enter-update-mode
\* command is sent, exactly one such command is sent, before the first
\* presence poll; if stopping fails the command is never sent, and if the
\* send fails no presence poll is made.
C38_EnterUpdateOrder ==
    mode = "ENTER_UPDATE"
        => /\ Cardinality(Entries("DFU")) <= 1
           /\ log # << >> => (Len(log) = 1 /\ log[1].cmd = "DFU" /\ log[1].param1 = 1)
           /\ pc = "stop_activity" => log = << >>
           /\ raised = "stop_activity" => (log = << >> /\ pc = "failed")
           /\ polls > 0 => (log # << >> /\ log[1].ok)
           /\ raised = "send" => (polls = 0 /\ sleeps = 0)
           /\ pc \in {"wait", "sleep"} => Cardinality(Entries("DFU")) = 1

\* the activity was stopped, the command sent and the device polled twice
C38_Witness ==
    /\ mode = "ENTER_UPDATE"
    /\ pc = "done"
    /\ Entries("DFU") = {1}
    /\ polls = 2
    /\ ~valid

(***************************************************************************)
(* C39: a region-of-interest query sends one command; a response shorter   *)
(* than 8 bytes makes it fail without another send and without a region,   *)
(* and a response of 8 bytes or more is decoded from its first four 16-bit *)
(* fields, in the order min_y, max_y, min_x, max_x.                        *)
(***************************************************************************)
C39_RoiShortResponseFails ==
    mode = "ROI_GET" =>
        /\ Len(log) <= 1
        /\ (pc \in {"done", "failed"} /\ Len(res) < 8)
              => pc = "failed" /\ Len(log) = 1 /\ roi = NoRoi
        /\ (pc \in {"done", "failed"} /\ Len(res) >= 8)
              => /\ pc = "done"
                 /\ Len(log) = 1
                 /\ roi.min_y = res[1] + 256 * res[2]
                 /\ roi.max_y = res[3] + 256 * res[4]
                 /\ roi.min_x = res[5] + 256 * res[6]
                 /\ roi.max_x = res[7] + 256 * res[8]

\* a query answered with 7 bytes has failed after its one command
C39_Witness ==
    /\ mode = "ROI_GET"
    /\ pc = "failed"
    /\ Len(res) = 7
    /\ Len(log) = 1
    /\ log[1].ok

\* a query answered with more than 8 bytes has returned a region
RoiDecoded ==
    /\ mode = "ROI_GET"
    /\ pc = "done"
    /\ Len(res) > 8
    /\ roi.min_y # roi.max_y

(***************************************************************************)
(* C40: while an update of the alternate engine is between its Init        *)
(* command and the end of its poll loop, the device query of a             *)
(* get_al3d_error call on another thread does not reach the device.        *)
(***************************************************************************)
UpdateInProgress == {"al3d_status", "al3d_block", "al3d_start", "al3d_poll"}

C40_NoQueryDuringUpdate ==
    query_at \notin UpdateInProgress

\* a call that tests the flag after update_flash has set it makes no query
QuerySkippedAfterFlag ==
    [][(epc = "call" /\ is_al3d_fw_update_start) => query_at' = query_at]_vars

====
